---- MODULE Spec2Model ----
(***************************************************************************)
(* The TensorBoard demo of Open3D's 3D plugin                              *)
(* (examples/python/visualization/tensorboard_plugin/demo_pytorch.py):     *)
(* the four logging functions small_scale, property_reference, large_scale *)
(* and with_material, each driving a SummaryWriter (the sink) with one     *)
(* add_3d call per (track, step).                                          *)
(*                                                                         *)
(* Mesh objects live on a heap (a sequence of mesh values addressed by     *)
(* reference), so that in-place painting and copy.deepcopy are what the    *)
(* Python code makes them.  The sink is the log of the add_3d calls that   *)
(* returned, plus the per-track baseline the reuse marker resolves to.     *)
(***************************************************************************)
EXTENDS Integers, Sequences, FiniteSets

VARIABLES
    prog,        \* the demo function that is running
    pc,          \* the statement about to run
    n_steps,     \* number of steps: large_scale's n_steps, range(3) elsewhere
    batch_size,  \* large_scale: batch_size argument
    step,        \* loop variable of the step loop
    track,       \* which of the two per-step tracks is being handled (1, 2)
    b,           \* large_scale: loop variable k (colours) and b (batch)
    colors,      \* the colors list
    heap,        \* mesh objects, by reference
    mesh,        \* the names cube / cylinder / moebius / model: a reference, 0 unbound
    lists,       \* large_scale: cylinder_list, moebius_list (references)
    summary,     \* property_reference: cube_summary, cylinder_summary
    files,       \* with_material: the texture files present in model_dir
    texture,     \* with_material: position in the texture loop
    material,    \* with_material: the material dict
    emitted,     \* the sink: the add_3d calls that returned, in order
    baseline,    \* the sink: last concrete value per track and property
    failure      \* the exception that ended the run, if any

vars == <<prog, pc, n_steps, batch_size, step, track, b, colors, heap, mesh,
          lists, summary, files, texture, material, emitted, baseline, failure>>

----------------------------------------------------------------------------
(* Bounds of the model and constants of the program *)

MaxSteps == 2
MaxBatch == 2

DemoSteps == 3
BaseResolution == 200

Min(x, y) == IF x < y THEN x ELSE y

RECURSIVE GCD(_, _)
GCD(x, y) == IF y = 0 THEN x ELSE GCD(y, x % y)

----------------------------------------------------------------------------
(* Property values: a concrete batch of per-instance values, the reuse     *)
(* marker, or nothing bound yet                                            *)

Concrete(v) == [tag |-> "concrete", val |-> v]
Marker == [tag |-> "marker", val |-> << >>]
Unbound == [tag |-> "unbound", val |-> << >>]

ReuseProps == {"vertex_positions", "vertex_normals"}

NoSummary ==
    [vertex_positions |-> Unbound, vertex_normals |-> Unbound,
     vertex_colors |-> Unbound, triangle_indices |-> Unbound]

NoFailure == [at |-> "none", prog |-> "none", step |-> 0, track |-> "none"]

NoMaterial ==
    [name |-> "none", scalar_properties |-> {}, vector_properties |-> {},
     texture_maps |-> {}]

\* max_outputs: << >> when the call does not pass it, <<n>> when it passes n
NoCap == << >>

----------------------------------------------------------------------------
(* The geometry provider *)

Geometry(shape, params) ==
    [vertices |-> [shape |-> shape, params |-> params],
     triangles |-> [shape |-> shape, params |-> params],
     vertex_normals |-> << >>,
     vertex_colors |-> << >>]

CreateBox(w, h, d) == Geometry("box", <<w, h, d>>)

CreateCylinder(radius, height, resolution, split) ==
    Geometry("cylinder", <<radius, height, resolution, split>>)

CreateMoebius(length_split, width_split) ==
    Geometry("moebius", <<length_split, width_split, 1, 1, 1, 1, 1>>)

ComputeVertexNormals(m) ==
    [m EXCEPT !.vertex_normals = <<[of |-> m.vertices, tri |-> m.triangles]>>]

PaintUniformColor(m, c) == [m EXCEPT !.vertex_colors = <<c>>]

\* to_dict_batch: one entry per mesh in every field, copied out of the meshes
ToDictBatch(ms) ==
    [vertex_positions |-> Concrete([i \in 1..Len(ms) |-> ms[i].vertices]),
     vertex_normals |-> Concrete([i \in 1..Len(ms) |-> ms[i].vertex_normals]),
     vertex_colors |-> Concrete([i \in 1..Len(ms) |-> ms[i].vertex_colors]),
     triangle_indices |-> Concrete([i \in 1..Len(ms) |-> ms[i].triangles])]

----------------------------------------------------------------------------
(* The sink *)

Frame(name, data, s, cap) ==
    [track |-> name, step |-> s, data |-> data, max_outputs |-> cap]

\* the last fully specified value of each reusable property, per track
SinkRecord(bl, name, data) ==
    [bl EXCEPT ![name] =
        [p \in ReuseProps |->
            IF data[p].tag = "concrete" THEN data[p] ELSE bl[name][p]]]

\* what the reuse marker stands for
Resolve(v, base) == IF v.tag = "marker" THEN base ELSE v

\* the instances of a frame the sink writes: at most max_outputs of them
EmittedBatch(f) ==
    LET batch == f.data.vertex_positions.val
    IN  IF f.max_outputs = NoCap THEN batch
        ELSE SubSeq(batch, 1, Min(Len(batch), f.max_outputs[1]))

AllTracks == {"cube", "cylinder", "moebius", "monkey"}

NoBaseline == [t \in AllTracks |-> [p \in ReuseProps |-> Unbound]]

----------------------------------------------------------------------------
(* The demo functions *)

Progs == {"small_scale", "property_reference", "large_scale", "with_material"}

TrackOrder(p) ==
    CASE p = "small_scale" -> <<"cube", "cylinder">>
      [] p = "property_reference" -> <<"cube", "cylinder">>
      [] p = "apply_property_reuse" -> <<"cube", "cylinder">>
      [] p = "large_scale" -> <<"cylinder", "moebius">>
      [] OTHER -> <<"monkey">>

\* the palette with two colours exchanged
PaletteSwapped == <<(<<0, 1, 0>>), (<<1, 0, 0>>), (<<0, 0, 1>>)>>

Palette == <<(<<1, 0, 0>>), (<<0, 1, 0>>), (<<0, 0, 1>>)>>

Textures == <<"albedo", "normal", "ao", "metallic", "roughness">>

NoMesh == [cube |-> 0, cylinder |-> 0, moebius |-> 0, model |-> 0]

NoLists == [cylinder |-> << >>, moebius |-> << >>]

NoSummaries == [cube |-> NoSummary, cylinder |-> NoSummary]

Init ==
    /\ prog \in Progs
    /\ pc = IF prog = "large_scale" THEN "colors"
            ELSE IF prog = "with_material" THEN "read" ELSE "setup"
    /\ n_steps \in IF prog = "large_scale" THEN 1..MaxSteps ELSE {DemoSteps}
    /\ batch_size \in IF prog = "large_scale" THEN 1..MaxBatch ELSE {1}
    /\ files \in IF prog = "with_material"
                 THEN SUBSET {Textures[i] : i \in 1..Len(Textures)} ELSE {{}}
    /\ step = 0
    /\ track = 1
    /\ b = 0
    /\ colors = << >>
    /\ heap = << >>
    /\ mesh = NoMesh
    /\ lists = NoLists
    /\ summary = NoSummaries
    /\ texture = 1
    /\ material = NoMaterial
    /\ emitted = << >>
    /\ baseline = NoBaseline
    /\ failure = NoFailure

\* the two-track step loop: after the first track the second, after the
\* second the next step or the end of the loop
NextTrack == IF track = 1 THEN 2 ELSE 1
\* a step counter advanced after every add_3d instead of once per step
NextStepEachTrack == step + 1
NextStep == IF track = 1 THEN step ELSE step + 1
AfterEmit(loopPc) ==
    IF track = 1 \/ step + 1 < n_steps THEN loopPc ELSE "done"

\* writer.add_3d(name, data, step=s, max_outputs=cap) returning normally
AddFrame(name, data, s, cap) ==
    /\ emitted' = Append(emitted, Frame(name, data, s, cap))
    /\ baseline' = SinkRecord(baseline, name, data)

(* small_scale *)

SS_Setup ==
    /\ prog = "small_scale" /\ pc = "setup"
    /\ heap' = <<ComputeVertexNormals(CreateBox(1, 2, 4)),
                 ComputeVertexNormals(CreateCylinder(1, 2, 20, 4))>>
    /\ mesh' = [mesh EXCEPT !.cube = 1, !.cylinder = 2]
    /\ colors' = Palette
    /\ step' = 0 /\ track' = 1
    /\ pc' = "paint"
    /\ UNCHANGED <<prog, n_steps, batch_size, b, lists, summary, files,
                   texture, material, emitted, baseline, failure>>

SS_Paint ==
    /\ prog = "small_scale" /\ pc = "paint"
    /\ LET name == TrackOrder(prog)[track]
       IN  heap' = [heap EXCEPT ![mesh[name]] =
                        PaintUniformColor(@, colors[step + 1])]
    /\ pc' = "emit"
    /\ UNCHANGED <<prog, n_steps, batch_size, step, track, b, colors, mesh,
                   lists, summary, files, texture, material, emitted,
                   baseline, failure>>

SS_Emit ==
    /\ prog = "small_scale" /\ pc = "emit"
    /\ LET name == TrackOrder(prog)[track]
       IN  AddFrame(name, ToDictBatch(<<heap[mesh[name]]>>), step, NoCap)
    /\ track' = NextTrack /\ step' = NextStep
    /\ pc' = AfterEmit("paint")
    /\ UNCHANGED <<prog, n_steps, batch_size, b, colors, heap, mesh, lists,
                   summary, files, texture, material, failure>>

(* property_reference *)

\* the substitution applied from step 0 on, or only from step 2 on
ReuseConditionAlways(s) == s >= 0
ReuseConditionLate(s) == s > 1

ReuseCondition(s) == s > 0

\* the substitution forgetting vertex_normals, or taking vertex_colors too
ApplyPropertyReusePositionsOnly(data, s) ==
    IF ReuseCondition(s)
    THEN [data EXCEPT !.vertex_positions = Marker]
    ELSE data

ApplyPropertyReuseColours(data, s) ==
    IF ReuseCondition(s)
    THEN [data EXCEPT !.vertex_positions = Marker, !.vertex_normals = Marker,
                      !.vertex_colors = Marker]
    ELSE data

ApplyPropertyReuse(data, s) ==
    IF ReuseCondition(s)
    THEN [data EXCEPT !.vertex_positions = Marker, !.vertex_normals = Marker]
    ELSE data

PR_Setup ==
    /\ prog = "property_reference" /\ pc = "setup"
    /\ heap' = <<ComputeVertexNormals(CreateBox(1, 2, 4)),
                 ComputeVertexNormals(CreateCylinder(1, 2, 20, 4))>>
    /\ mesh' = [mesh EXCEPT !.cube = 1, !.cylinder = 2]
    /\ colors' = Palette
    /\ step' = 0 /\ track' = 1
    /\ pc' = "paint"
    /\ UNCHANGED <<prog, n_steps, batch_size, b, lists, summary, files,
                   texture, material, emitted, baseline, failure>>

PR_Paint ==
    /\ prog = "property_reference" /\ pc = "paint"
    /\ LET name == TrackOrder(prog)[track]
       IN  heap' = [heap EXCEPT ![mesh[name]] =
                        PaintUniformColor(@, colors[step + 1])]
    /\ pc' = "summary"
    /\ UNCHANGED <<prog, n_steps, batch_size, step, track, b, colors, mesh,
                   lists, summary, files, texture, material, emitted,
                   baseline, failure>>

PR_Summary ==
    /\ prog = "property_reference" /\ pc = "summary"
    /\ LET name == TrackOrder(prog)[track]
       IN  summary' = [summary EXCEPT ![name] =
               ApplyPropertyReuse(ToDictBatch(<<heap[mesh[name]]>>), step)]
    /\ pc' = "emit"
    /\ UNCHANGED <<prog, n_steps, batch_size, step, track, b, colors, heap,
                   mesh, lists, files, texture, material, emitted, baseline,
                   failure>>

PR_Emit ==
    /\ prog = "property_reference" /\ pc = "emit"
    /\ LET name == TrackOrder(prog)[track]
       IN  AddFrame(name, summary[name], step, NoCap)
    /\ track' = NextTrack /\ step' = NextStep
    /\ pc' = AfterEmit("paint")
    /\ UNCHANGED <<prog, n_steps, batch_size, b, colors, heap, mesh, lists,
                   summary, files, texture, material, failure>>

(* large_scale *)

\* lines 96-97: t = k * pi / batch_size, and the colour is the function
\* ((1 + sin t) / 2, (1 + cos t) / 2, t / pi) of t; t / pi is kept, in
\* lowest terms
ColorSchedule(k, n) ==
    LET g == GCD(k, n) IN [tnum |-> k \div g, tden |-> n \div g]

\* the base object itself appended to the list, not a copy of it
ShallowCopy(h, base) == [heap |-> h, ref |-> base]

\* copy.deepcopy(base): a new object holding the value of the base object
DeepCopy(h, base) == [heap |-> Append(h, h[base]), ref |-> Len(h) + 1]

\* max_outputs left out of the call: the sink's default of one instance
MaxOutputsLeftOut == Min(1, batch_size)

\* max_outputs=batch_size, as passed to add_3d (lines 122, 126)
MaxOutputs == batch_size

Resolution(s) == BaseResolution * (s + 1)

LS_Colors ==
    /\ prog = "large_scale" /\ pc = "colors"
    /\ colors' = Append(colors, ColorSchedule(b, batch_size))
    /\ IF b + 1 < batch_size
       THEN b' = b + 1 /\ pc' = "colors"
       ELSE b' = 0 /\ pc' = "create"
    /\ UNCHANGED <<prog, n_steps, batch_size, step, track, heap, mesh, lists,
                   summary, files, texture, material, emitted, baseline,
                   failure>>

LS_Create ==
    /\ prog = "large_scale" /\ pc = "create"
    /\ IF track = 1
       THEN /\ lists' = [cylinder |-> << >>, moebius |-> << >>]
            /\ heap' = Append(heap, ComputeVertexNormals(
                           CreateCylinder(1, 2, Resolution(step), 4)))
            /\ mesh' = [mesh EXCEPT !.cylinder = Len(heap) + 1]
            /\ track' = 2 /\ pc' = "create"
       ELSE /\ lists' = lists
            /\ heap' = Append(heap, ComputeVertexNormals(
                           CreateMoebius((7 * Resolution(step)) \div 2,
                                         (3 * Resolution(step)) \div 4)))
            /\ mesh' = [mesh EXCEPT !.moebius = Len(heap) + 1]
            /\ track' = 1 /\ pc' = "batch"
    /\ b' = 0
    /\ UNCHANGED <<prog, n_steps, batch_size, step, colors, summary, files,
                   texture, material, emitted, baseline, failure>>

LS_Batch ==
    /\ prog = "large_scale" /\ pc = "batch"
    /\ LET name == TrackOrder(prog)[track]
           copy == DeepCopy(heap, mesh[name])
           list == Append(lists[name], copy.ref)
       IN  /\ lists' = [lists EXCEPT ![name] = list]
           /\ heap' = [copy.heap EXCEPT ![list[b + 1]] =
                          PaintUniformColor(@, colors[b + 1])]
    /\ track' = NextTrack
    /\ b' = IF track = 1 THEN b ELSE b + 1
    /\ pc' = IF track = 1 \/ b + 1 < batch_size THEN "batch" ELSE "emit"
    /\ UNCHANGED <<prog, n_steps, batch_size, step, colors, mesh, summary,
                   files, texture, material, emitted, baseline, failure>>

LS_Emit ==
    /\ prog = "large_scale" /\ pc = "emit"
    /\ LET name == TrackOrder(prog)[track]
           list == lists[name]
       IN  AddFrame(name, ToDictBatch([i \in 1..Len(list) |-> heap[list[i]]]),
                    step, <<MaxOutputs>>)
    /\ track' = NextTrack /\ step' = NextStep
    /\ pc' = IF track = 1 THEN "emit" ELSE AfterEmit("create")
    /\ UNCHANGED <<prog, n_steps, batch_size, b, colors, heap, mesh, lists,
                   summary, files, texture, material, failure>>

(* with_material *)

\* a dict as a set of <<key, value>> pairs
Keys(d) == {kv[1] : kv \in d}
Put(d, k, v) == {kv \in d : kv[1] # k} \cup {<<k, v>>}

ReadImage(channel) == [image |-> channel]

ReadModel == ComputeVertexNormals(Geometry("obj", << >>))

\* the existence test made on the model directory, not on the texture file
TextureAssumed(channel) == TRUE

TextureExists(channel) == channel \in files

WM_Read ==
    /\ prog = "with_material" /\ pc = "read"
    /\ heap' = <<ReadModel>>
    /\ mesh' = [mesh EXCEPT !.model = 1]
    /\ material' = [name |-> "defaultLit", scalar_properties |-> {},
                    vector_properties |-> {}, texture_maps |-> {}]
    /\ texture' = 1
    /\ pc' = "texture"
    /\ UNCHANGED <<prog, n_steps, batch_size, step, track, b, colors, lists,
                   summary, files, emitted, baseline, failure>>

WM_Texture ==
    /\ prog = "with_material" /\ pc = "texture"
    /\ material' =
           IF TextureExists(Textures[texture])
           THEN [material EXCEPT !.texture_maps =
                    Put(@, Textures[texture], ReadImage(Textures[texture]))]
           ELSE material
    /\ texture' = texture + 1
    /\ pc' = IF texture < Len(Textures) THEN "texture" ELSE "metallic"
    /\ UNCHANGED <<prog, n_steps, batch_size, step, track, b, colors, heap,
                   mesh, lists, summary, files, emitted, baseline, failure>>

WM_Metallic ==
    /\ prog = "with_material" /\ pc = "metallic"
    /\ material' =
           IF "metallic" \in Keys(material.texture_maps)
           THEN [material EXCEPT !.scalar_properties =
                    Put(@, "base_metallic", 1)]
           ELSE material
    /\ pc' = "emit"
    /\ UNCHANGED <<prog, n_steps, batch_size, step, track, b, colors, heap,
                   mesh, lists, summary, files, texture, emitted, baseline,
                   failure>>

WM_Emit ==
    /\ prog = "with_material" /\ pc = "emit"
    /\ LET model == heap[mesh.model]
       IN  AddFrame(TrackOrder(prog)[1],
                    [vertex_positions |-> Concrete(<<model.vertices>>),
                     vertex_normals |-> Concrete(<<model.vertex_normals>>),
                     vertex_texture_uvs |-> Concrete(<<model.vertices>>),
                     triangle_indices |-> Concrete(<<model.triangles>>),
                     material |-> material],
                    0, NoCap)
    /\ pc' = "done"
    /\ UNCHANGED <<prog, n_steps, batch_size, step, track, b, colors, heap,
                   mesh, lists, summary, files, texture, material, failure>>

(* An exception raised by the geometry provider, by paint_uniform_color,   *)
(* by to_dict_batch, by the file readers or by add_3d: no function of the  *)
(* demo catches it, so the run ends where it was raised.                   *)

CallsOut ==
    \/ pc \in {"setup", "paint", "summary", "emit", "create", "batch", "read"}
    \/ pc = "texture" /\ TextureExists(Textures[texture])

FailingTrack ==
    IF pc \in {"setup", "read"} THEN "none" ELSE TrackOrder(prog)[track]

\* the exception caught and the loop carried on
RaiseSwallowed ==
    /\ CallsOut
    /\ failure' = [at |-> pc, prog |-> prog, step |-> step,
                   track |-> FailingTrack]
    /\ UNCHANGED <<prog, pc, n_steps, batch_size, step, track, b, colors,
                   heap, mesh, lists, summary, files, texture, material,
                   emitted, baseline>>

Raise ==
    /\ CallsOut
    /\ failure' = [at |-> pc, prog |-> prog, step |-> step,
                   track |-> FailingTrack]
    /\ pc' = "failed"
    /\ UNCHANGED <<prog, n_steps, batch_size, step, track, b, colors, heap,
                   mesh, lists, summary, files, texture, material, emitted,
                   baseline>>

Next ==
    \/ SS_Setup \/ SS_Paint \/ SS_Emit
    \/ PR_Setup \/ PR_Paint \/ PR_Summary \/ PR_Emit
    \/ LS_Colors \/ LS_Create \/ LS_Batch \/ LS_Emit
    \/ WM_Read \/ WM_Texture \/ WM_Metallic \/ WM_Emit
    \/ Raise

Spec == Init /\ [][Next]_vars

----------------------------------------------------------------------------
(* The marker substitution of property_reference (lines 73-77, 79-83)      *)
(* taken alone: applied to the frame of either track, painted any colour   *)
(* of the palette, at any step of the loop, with the sink holding a        *)
(* baseline for that track, for the other track only, or for none.         *)

DemoMeshes ==
    <<ComputeVertexNormals(CreateBox(1, 2, 4)),
      ComputeVertexNormals(CreateCylinder(1, 2, 20, 4))>>

BaselineOf(names) ==
    [t \in AllTracks |->
        IF t \in names
        THEN [p \in ReuseProps |->
                 ToDictBatch(<<DemoMeshes[IF t = "cube" THEN 1 ELSE 2]>>)[p]]
        ELSE NoBaseline[t]]

InitReuse ==
    /\ prog = "apply_property_reuse"
    /\ pc = "apply"
    /\ n_steps = DemoSteps /\ batch_size = 1
    /\ step \in 0..(DemoSteps - 1)
    /\ track \in 1..2
    /\ b = 0
    /\ colors = Palette
    /\ \E c \in 1..Len(Palette) :
           heap = [i \in 1..2 |-> PaintUniformColor(DemoMeshes[i], Palette[c])]
    /\ mesh = [NoMesh EXCEPT !.cube = 1, !.cylinder = 2]
    /\ lists = NoLists
    /\ summary = [NoSummaries EXCEPT ![TrackOrder(prog)[track]] =
                      ToDictBatch(<<heap[track]>>)]
    /\ files = {} /\ texture = 1 /\ material = NoMaterial
    /\ emitted = << >>
    /\ baseline \in {BaselineOf({}),
                     BaselineOf({TrackOrder(prog)[track]}),
                     BaselineOf({TrackOrder(prog)[NextTrack]})}
    /\ failure = NoFailure

AR_Apply ==
    /\ prog = "apply_property_reuse" /\ pc = "apply"
    /\ LET name == TrackOrder(prog)[track]
       IN  summary' = [summary EXCEPT ![name] =
                          ApplyPropertyReuse(summary[name], step)]
    /\ pc' = "applied"
    /\ UNCHANGED <<prog, n_steps, batch_size, step, track, b, colors, heap,
                   mesh, lists, files, texture, material, emitted, baseline,
                   failure>>

AR_Emit ==
    /\ prog = "apply_property_reuse" /\ pc = "applied"
    /\ LET name == TrackOrder(prog)[track]
       IN  AddFrame(name, summary[name], step, NoCap)
    /\ pc' = "done"
    /\ UNCHANGED <<prog, n_steps, batch_size, step, track, b, colors, heap,
                   mesh, lists, summary, files, texture, material, failure>>

NextReuse == AR_Apply \/ AR_Emit

SpecReuse == InitReuse /\ [][NextReuse]_vars

----------------------------------------------------------------------------
(* Properties *)

Idx == 1..Len(emitted)

StepLoop == prog \in {"small_scale", "property_reference", "large_scale"}

\* the position of a track in the per-step order of the running function
TrackIndex(t) == CHOOSE k \in 1..Len(TrackOrder(prog)) : TrackOrder(prog)[k] = t

FramesOf(t, s) == {i \in Idx : emitted[i].track = t /\ emitted[i].step = s}

EarlierOf(i) == {j \in Idx : j < i /\ emitted[j].track = emitted[i].track}

\* C1: a complete run of large_scale called the sink n_steps * 2 times,
\* once per (track, step) with step in 0..n_steps-1; every frame was passed
\* max_outputs = batch_size and carries batch_size instances, of which the
\* cap min(batch_size, max_outputs) drops none.
C1_LargeScaleFrames ==
    (prog = "large_scale" /\ pc = "done") =>
        /\ Len(emitted) = n_steps * Len(TrackOrder(prog))
        /\ \A k \in 1..Len(TrackOrder(prog)) : \A s \in 0..(n_steps - 1) :
               Cardinality(FramesOf(TrackOrder(prog)[k], s)) = 1
        /\ \A i \in Idx :
               /\ emitted[i].max_outputs = <<batch_size>>
               /\ Len(emitted[i].data.vertex_positions.val) = batch_size
               /\ Len(EmittedBatch(emitted[i])) =
                      Min(batch_size, emitted[i].max_outputs[1])
               /\ Len(EmittedBatch(emitted[i])) = batch_size

C1_Witness ==
    /\ prog = "large_scale" /\ pc = "done"
    /\ n_steps = 2 /\ batch_size = 2 /\ Len(emitted) = 4

\* C2: the frames are emitted in increasing step order and, within a step,
\* in the fixed track order; the steps of one track are 0, 1, 2, ... with
\* no gap and no repeat; a frame of step s+1 comes only after every track's
\* frame of step s; a complete run reaches step n_steps-1 on every track.
C2_EmitOrder ==
    StepLoop =>
        /\ \A i, j \in Idx : i < j =>
               /\ emitted[i].step <= emitted[j].step
               /\ emitted[i].step = emitted[j].step =>
                      TrackIndex(emitted[i].track) < TrackIndex(emitted[j].track)
        /\ \A i \in Idx : emitted[i].step = Cardinality(EarlierOf(i))
        /\ \A i \in Idx : emitted[i].step > 0 =>
               \A k \in 1..Len(TrackOrder(prog)) :
                   \E j \in Idx :
                       /\ j < i
                       /\ emitted[j].track = TrackOrder(prog)[k]
                       /\ emitted[j].step = emitted[i].step - 1
        /\ pc = "done" =>
               \A k \in 1..Len(TrackOrder(prog)) :
                   {emitted[i].step : i \in {j \in Idx :
                        emitted[j].track = TrackOrder(prog)[k]}}
                     = 0..(n_steps - 1)

C2_Witness ==
    /\ prog = "small_scale" /\ pc = "done"
    /\ Len(emitted) = 6
    /\ emitted[3].track = "cube" /\ emitted[3].step = 1
    /\ emitted[4].track = "cylinder" /\ emitted[4].step = 1

\* C3: a frame carrying the reuse marker for a property comes after a frame
\* of the same track carrying a concrete value for it; a track has a
\* baseline exactly from its first frame on, and that baseline is concrete.
C3_MarkerHasBaseline ==
    /\ \A i \in Idx : \A p \in ReuseProps :
           emitted[i].data[p].tag = "marker" =>
               \E j \in EarlierOf(i) : emitted[j].data[p].tag = "concrete"
    /\ \A t \in AllTracks : \A p \in ReuseProps :
           (baseline[t][p].tag = "concrete") <=>
               (\E i \in Idx : emitted[i].track = t)
    /\ \A t \in AllTracks : \A p \in ReuseProps :
           baseline[t][p].tag \in {"concrete", "unbound"}

C3_Witness ==
    /\ prog = "property_reference"
    /\ \E i \in Idx :
           /\ emitted[i].track = "cylinder"
           /\ emitted[i].step = 2
           /\ emitted[i].data.vertex_normals.tag = "marker"

\* the frame the producer builds for a track of the cube / cylinder demos
\* at a step: the track's mesh, painted the step's colour of red, green, blue
Red == <<1, 0, 0>>
Green == <<0, 1, 0>>
Blue == <<0, 0, 1>>
StepColour(s) == IF s = 0 THEN Red ELSE IF s = 1 THEN Green ELSE Blue

Built(t, s) ==
    ToDictBatch(<<PaintUniformColor(heap[mesh[t]], StepColour(s))>>)

LastOf(t) ==
    LET is == {i \in Idx : emitted[i].track = t}
    IN  CHOOSE i \in is : \A j \in is : j <= i

\* a frame has been built and not yet handed to the sink (or the hand-over
\* raised)
Pending == pc = "emit" \/ (pc = "failed" /\ failure.at = "emit")

\* C5: in property_reference a frame carries the reuse marker in
\* vertex_positions and vertex_normals exactly when its step is > 0, and is
\* the frame as built when its step is 0; vertex_colors and triangle_indices
\* are as built in both cases; and the frame variable of the track that is
\* not being handled is still the frame last emitted for it.
C5_ReuseSubstitution ==
    prog = "property_reference" =>
        /\ \A i \in Idx :
               LET f == emitted[i]
                   built == Built(f.track, f.step)
               IN  /\ f.data.vertex_colors = built.vertex_colors
                   /\ f.data.triangle_indices = built.triangle_indices
                   /\ f.step > 0 <=> f.data.vertex_positions = Marker
                   /\ f.step > 0 <=> f.data.vertex_normals = Marker
                   /\ f.step = 0 => f.data = built
        /\ \A k \in 1..2 :
               LET t == TrackOrder(prog)[k]
               IN  IF Pending /\ track = k
                   THEN /\ summary[t].vertex_colors = Built(t, step).vertex_colors
                        /\ summary[t].triangle_indices =
                               Built(t, step).triangle_indices
                        /\ step > 0 <=> summary[t].vertex_positions = Marker
                   ELSE IF \E i \in Idx : emitted[i].track = t
                        THEN summary[t] = emitted[LastOf(t)].data
                        ELSE summary[t] = NoSummary

C5_Witness ==
    /\ prog = "property_reference" /\ pc = "emit" /\ track = 1 /\ step = 1
    /\ summary.cube.vertex_positions = Marker
    /\ summary.cylinder.vertex_positions.tag = "concrete"
    /\ Len(emitted) = 2

\* the frame small_scale emits for a track at a step
SmallFrame(t, s) ==
    ToDictBatch(<<PaintUniformColor(
        IF t = "cube" THEN ComputeVertexNormals(CreateBox(1, 2, 4))
        ELSE ComputeVertexNormals(CreateCylinder(1, 2, 20, 4)),
        StepColour(s))>>)

ResolveFrame(f) ==
    [p \in DOMAIN f.data |->
        IF p \in ReuseProps THEN Resolve(f.data[p], baseline[f.track][p])
        ELSE f.data[p]]

\* C6: every frame small_scale emits is SmallFrame(track, step); every frame
\* property_reference emits, with its markers resolved against the track's
\* baseline, is that same SmallFrame(track, step); for step >= 1 the
\* resolved value is the concrete value of the track's step-0 frame, and
\* resolving once more changes nothing.
C6_ResolvedEqualsSmallScale ==
    /\ prog = "small_scale" =>
           \A i \in Idx :
               emitted[i].data = SmallFrame(emitted[i].track, emitted[i].step)
    /\ prog = "property_reference" =>
           \A i \in Idx :
               LET f == emitted[i]
                   r == ResolveFrame(f)
               IN  /\ \A p \in DOMAIN f.data :
                          r[p] = SmallFrame(f.track, f.step)[p]
                   /\ \A p \in ReuseProps :
                          /\ Resolve(r[p], baseline[f.track][p]) = r[p]
                          /\ f.step >= 1 =>
                                 /\ f.data[p] = Marker
                                 /\ \E j \in EarlierOf(i) :
                                        /\ emitted[j].step = 0
                                        /\ r[p] = emitted[j].data[p]

C6_Witness ==
    /\ prog = "property_reference" /\ pc = "done" /\ Len(emitted) = 6
    /\ emitted[6].data.vertex_positions = Marker
    /\ ResolveFrame(emitted[6]).vertex_positions = emitted[2].data.vertex_positions

\* C7: a complete run of small_scale made exactly 6 emit calls, one per
\* track in {cube, cylinder} and step in {0, 1, 2}; the frame of step 0 is
\* red, of step 1 green, of step 2 blue; and the run used one mesh object
\* per track throughout.
C7_SmallScalePalette ==
    prog = "small_scale" =>
        /\ \A i \in Idx :
               emitted[i].data.vertex_colors =
                   Concrete(<< <<StepColour(emitted[i].step)>> >>)
        /\ Len(heap) <= 2
        /\ pc = "done" =>
               /\ Len(emitted) = 6
               /\ \A t \in {"cube", "cylinder"} : \A s \in 0..2 :
                      Cardinality(FramesOf(t, s)) = 1

C7_Witness ==
    /\ prog = "small_scale" /\ pc = "done" /\ Len(emitted) = 6
    /\ emitted[5].data.vertex_colors = Concrete(<< <<Blue>> >>)
    /\ heap[mesh.cube].vertex_colors = <<Blue>>

\* the colour of batch element k (from 0) of n: the one whose t / pi is k / n
IsScheduled(c, k, n) == c.tden > 0 /\ c.tnum * n = k * c.tden

\* C8: in large_scale the instances of a track are objects of their own,
\* distinct from each other, from the step's base geometry and from the
\* other track's instances; while the batch is being painted and when it is
\* emitted every instance painted so far still has its own colour
\* color_schedule(b, batch_size) and the base geometry is still unpainted;
\* instance b of every emitted frame carries color_schedule(b, batch_size).
C8_DeepCopyIsolation ==
    prog = "large_scale" =>
        /\ pc \in {"batch", "emit"} =>
               /\ \A t \in {"cylinder", "moebius"} :
                      /\ heap[mesh[t]].vertex_colors = << >>
                      /\ \A i \in 1..Len(lists[t]) :
                             /\ lists[t][i] # mesh[t]
                             /\ Len(heap[lists[t][i]].vertex_colors) = 1
                             /\ IsScheduled(heap[lists[t][i]].vertex_colors[1],
                                            i - 1, batch_size)
                             /\ \A j \in 1..Len(lists[t]) :
                                    i # j => lists[t][i] # lists[t][j]
               /\ \A i \in 1..Len(lists.cylinder) :
                      \A j \in 1..Len(lists.moebius) :
                          lists.cylinder[i] # lists.moebius[j]
        /\ \A i \in Idx :
               /\ Len(emitted[i].data.vertex_colors.val) = batch_size
               /\ \A k \in 1..batch_size :
                      /\ Len(emitted[i].data.vertex_colors.val[k]) = 1
                      /\ IsScheduled(emitted[i].data.vertex_colors.val[k][1],
                                     k - 1, batch_size)

C8_Witness ==
    /\ prog = "large_scale" /\ batch_size = 2 /\ Len(emitted) >= 2
    /\ pc = "batch" /\ b = 1 /\ track = 2
    /\ Len(lists.cylinder) = 2
    /\ heap[lists.cylinder[1]].vertex_colors # heap[lists.cylinder[2]].vertex_colors

\* C9: a complete run of with_material, whatever subset of the five texture
\* files is present, built a material whose texture_maps keys are exactly
\* the present channels, whose scalar_properties is {base_metallic: 1.0}
\* when metallic is among them and empty otherwise, and emitted exactly one
\* frame, at step 0, carrying that material.
C9_MaterialAssembly ==
    (prog = "with_material" /\ pc = "done") =>
        /\ Keys(material.texture_maps) = files
        /\ Cardinality(material.texture_maps) = Cardinality(files)
        /\ material.scalar_properties =
               IF "metallic" \in Keys(material.texture_maps)
               THEN {<<"base_metallic", 1>>} ELSE {}
        /\ ("metallic" \in files) <=> (material.scalar_properties # {})
        /\ material.name = "defaultLit"
        /\ Len(emitted) = 1
        /\ emitted[1].step = 0
        /\ emitted[1].data.material = material

C9_Witness ==
    /\ prog = "with_material" /\ pc = "done"
    /\ files = {"albedo", "metallic"}
    /\ Keys(material.texture_maps) = {"albedo", "metallic"}
    /\ Len(emitted) = 1

IsPrefix(s1, s2) == Len(s1) <= Len(s2) /\ SubSeq(s2, 1, Len(s1)) = s1

\* what the sink holds once a run has failed at step k: no frame of a later
\* step, and no frame of the failing track at step k
AfterFailure ==
    failure # NoFailure =>
        \A i \in Idx :
            /\ emitted[i].step <= failure.step
            /\ ~(emitted[i].step = failure.step /\ emitted[i].track = failure.track)

\* C10: a failure of the geometry provider, of the painting or of the sink
\* ends the run: from then on no frame is emitted and the failure stays as
\* raised, the sink holds no frame of a later step and none of the failing
\* track at the failing step, and every step of a run keeps the frames
\* emitted so far, unchanged and in place.
C10_FailFast ==
    [][/\ IsPrefix(emitted, emitted')
       /\ failure # NoFailure => (emitted' = emitted /\ failure' = failure)
       /\ AfterFailure']_vars

C10_Witness ==
    /\ prog = "large_scale" /\ pc = "failed"
    /\ failure.at = "emit" /\ failure.track = "moebius" /\ failure.step = 1
    /\ Len(emitted) = 3

====
